---- MODULE Spec2Model ----
(***************************************************************************)
(* Model of the InkyPi display plugins.                                    *)
(*                                                                         *)
(*   SchoolMenu  (src/src/plugins/schoolmenu/schoolmenu.py)                *)
(*     get_menu_for_days and everything it calls: validation of the day    *)
(*     count, the one GraphQL request, the parsing of the payload, the     *)
(*     weekday window and the fallback menus.        Specification Spec    *)
(*     generate_image: the settings are parsed, get_menu_for_days is       *)
(*     called and the menu rendered.                 Specification ImageSpec*)
(*                                                                         *)
(*   TilePlugin  (src/src/plugins/tile/tile.py)                            *)
(*     generate_image: the canvas, the grid borders, and the loop that     *)
(*     renders each tile's child plugin and pastes its bitmap or draws     *)
(*     the error placeholder, pixel by pixel.        Specification TileSpec*)
(*     The cell and rectangle arithmetic alone, on canvases of real        *)
(*     size.                                         Specification GridSpec*)
(*                                                                         *)
(* Strings the code inspects character by character (product names, the    *)
(* deny list, the ISO date keys) are sequences of one-character strings.   *)
(* Python's None is modelled by a falsy value of the same type (0 for a    *)
(* number, NoneId for the menu id).                                        *)
(***************************************************************************)
EXTENDS Integers, Sequences, FiniteSets, TLC

VARIABLES
    \* SchoolMenu.get_menu_for_days
    pc,         \* position of the call ("idle" when another plugin is modelled)
    today,      \* what date.today() returns during the call, <<y, m, d>>
    num_days,   \* argument num_days
    menu_id,    \* argument menu_id
    response,   \* what requests.post produced (NoResponse before the request)
    requests,   \* number of requests.post calls issued so far
    menu_data,  \* the returned dict, as a sequence of <<key, items>> in insertion order
    settings,   \* the settings SchoolMenu.generate_image is given (NoSettings for a direct call)
    \* TilePlugin.generate_image
    tpc,        \* position of the call ("idle" when another plugin is modelled)
    cfg,        \* settings and device configuration of the call
    img,        \* the canvas: pixel <<x, y>> -> what was last drawn there
    idx,        \* index in tiles of the next tile of the for loop
    log,        \* per tile already handled: what _render_tile did with it
    \* the grid arithmetic alone
    geom

menuVars == <<pc, today, num_days, menu_id, response, requests, menu_data, settings>>

tileVars == <<tpc, cfg, img, idx, log>>

vars == <<pc, today, num_days, menu_id, response, requests, menu_data, settings,
          tpc, cfg, img, idx, log, geom>>

(***************************************************************************)
(* Program constants                                                       *)
(***************************************************************************)
MIN_DAYS == 1
MAX_DAYS == 5

STANDARD_ITEMS ==
    << <<"G","a","r","d","e","n"," ","B","a","r",":">>,
       <<"O","r","g","a","n","i","c"," ","F","r","e","s","h"," ","F","r","u","i","t","s"," ","a","n","d"," ","V","e","g","g","i","e","s">>,
       <<"S","t","r","a","u","s"," ","O","r","g","a","n","i","c"," ","1","%"," ","M","i","l","k">>,
       <<"N","o","n","-","f","a","t"," ","m","i","l","k">>,
       <<"L","o","w","-","f","a","t"," ","M","i","l","k">>,
       <<"M","i","l","k">>,
       <<"G","a","r","d","e","n"," ","B","a","r",":"," ","F","r","e","s","h"," ","F","r","u","i","t","s"," ","a","n","d"," ","V","e","g","g","i","e","s">> >>

MenuNotAvailable == <<"M","e","n","u"," ","n","o","t"," ","a","v","a","i","l","a","b","l","e">>
NoMenuAvailable == <<"N","o"," ","m","e","n","u"," ","a","v","a","i","l","a","b","l","e">>

(***************************************************************************)
(* Python str operations used by the plugin                                *)
(***************************************************************************)
UpperLetters == <<"A","B","C","D","E","F","G","H","I","J","K","L","M","N","O","P","Q","R","S","T","U","V","W","X","Y","Z">>
LowerLetters == <<"a","b","c","d","e","f","g","h","i","j","k","l","m","n","o","p","q","r","s","t","u","v","w","x","y","z">>

Whitespace == {" ", "\t", "\n"}

\* str.lower() on one character
LowerChar(c) ==
    IF \E i \in 1..Len(UpperLetters) : UpperLetters[i] = c
    THEN LowerLetters[CHOOSE i \in 1..Len(UpperLetters) : UpperLetters[i] = c]
    ELSE c

\* str.lower()
Lower(s) == [i \in 1..Len(s) |-> LowerChar(s[i])]

\* str.strip(): whitespace removed at both ends
Strip(s) ==
    LET keep == {i \in 1..Len(s) : s[i] \notin Whitespace}
    IN  IF keep = {} THEN <<>>
        ELSE LET lo == CHOOSE i \in keep : \A j \in keep : i <= j
                 hi == CHOOSE i \in keep : \A j \in keep : j <= i
             IN  SubSeq(s, lo, hi)

\* str.rstrip(":"): every trailing colon removed, nothing else
RStripColon(s) ==
    LET keep == {i \in 1..Len(s) : s[i] # ":"}
    IN  IF keep = {} THEN <<>>
        ELSE SubSeq(s, 1, CHOOSE i \in keep : \A j \in keep : j <= i)

\* needle in hay (Python substring test)
Contains(hay, needle) ==
    \E i \in 0..(Len(hay) - Len(needle)) :
        SubSeq(hay, i + 1, i + Len(needle)) = needle

(***************************************************************************)
(* datetime.date: proleptic Gregorian calendar, dates are <<y, m, d>>      *)
(***************************************************************************)
IsLeap(y) == (y % 4 = 0) /\ ((y % 100 # 0) \/ (y % 400 = 0))

DaysInMonth(y, m) ==
    IF m = 2 THEN (IF IsLeap(y) THEN 29 ELSE 28)
    ELSE IF m \in {4, 6, 9, 11} THEN 30 ELSE 31

RECURSIVE DaysBeforeMonth(_, _)
DaysBeforeMonth(y, m) ==
    IF m = 1 THEN 0 ELSE DaysBeforeMonth(y, m - 1) + DaysInMonth(y, m - 1)

DaysBeforeYear(y) ==
    (y - 1) * 365 + ((y - 1) \div 4) - ((y - 1) \div 100) + ((y - 1) \div 400)

\* date.toordinal(): 0001-01-01 is day 1
ToOrdinal(d) == DaysBeforeYear(d[1]) + DaysBeforeMonth(d[1], d[2]) + d[3]

\* date.weekday(): Monday = 0 .. Sunday = 6
Weekday(d) == (ToOrdinal(d) + 6) % 7

\* d + timedelta(days=1)
AddOneDay(d) ==
    IF d[3] < DaysInMonth(d[1], d[2]) THEN <<d[1], d[2], d[3] + 1>>
    ELSE IF d[2] < 12 THEN <<d[1], d[2] + 1, 1>>
    ELSE <<d[1] + 1, 1, 1>>

Digits == <<"0","1","2","3","4","5","6","7","8","9">>
Digit(n) == Digits[n + 1]

\* date.strftime("%Y-%m-%d") for a four-digit year
Strftime(d) ==
    << Digit(d[1] \div 1000), Digit((d[1] \div 100) % 10),
       Digit((d[1] \div 10) % 10), Digit(d[1] % 10), "-",
       Digit(d[2] \div 10), Digit(d[2] % 10), "-",
       Digit(d[3] \div 10), Digit(d[3] % 10) >>

DigitValue(c) == (CHOOSE i \in 1..10 : Digits[i] = c) - 1

\* date.fromisoformat(s) for "YYYY-MM-DD"
FromIsoFormat(s) ==
    << DigitValue(s[1]) * 1000 + DigitValue(s[2]) * 100
         + DigitValue(s[3]) * 10 + DigitValue(s[4]),
       DigitValue(s[6]) * 10 + DigitValue(s[7]),
       DigitValue(s[9]) * 10 + DigitValue(s[10]) >>

(***************************************************************************)
(* Python dict with insertion order: a sequence of <<key, value>>          *)
(***************************************************************************)
DictHas(dct, k) == \E i \in 1..Len(dct) : dct[i][1] = k

\* dct[k] = v
DictSet(dct, k, v) ==
    IF DictHas(dct, k)
    THEN [i \in 1..Len(dct) |-> IF dct[i][1] = k THEN <<k, v>> ELSE dct[i]]
    ELSE Append(dct, <<k, v>>)

(***************************************************************************)
(* SchoolMenu                                                              *)
(***************************************************************************)
\* mutant: the 1-7 range of another draft of the plugin
_is_valid_day_count_week(n) == MIN_DAYS <= n /\ n <= MAX_DAYS + 2

_is_valid_day_count(n) == MIN_DAYS <= n /\ n <= MAX_DAYS

\* mutant: Saturday counted as a school day
_is_school_day_sat(check_date) == Weekday(check_date) < 6

_is_school_day(check_date) == Weekday(check_date) < 5

\* mutant: the year is not compared
_is_date_in_menu_range_month(check_date, menu_month, menu_year) ==
    check_date[2] = menu_month

_is_date_in_menu_range(check_date, menu_month, menu_year) ==
    check_date[2] = menu_month /\ check_date[1] = menu_year

\* standard_item.lower() for each entry of STANDARD_ITEMS
StandardItemsLower == [k \in 1..Len(STANDARD_ITEMS) |-> Lower(STANDARD_ITEMS[k])]

\* the inner loop of _filter_standard_items for one item
ShouldFilter(item) ==
    LET item_lower == Lower(item)
    IN  \E k \in 1..Len(STANDARD_ITEMS) : Contains(item_lower, StandardItemsLower[k])

KeepItem(item) == ~ShouldFilter(item)

_filter_standard_items(menu_items) == SelectSeq(menu_items, KeepItem)

\* the while loop of _get_empty_menu_for_days
RECURSIVE EmptyLoop(_, _, _, _)
EmptyLoop(n, current_date, days_added, md) ==
    IF days_added < n
    THEN IF Weekday(current_date) < 5
         THEN EmptyLoop(n, AddOneDay(current_date), days_added + 1,
                        DictSet(md, Strftime(current_date), <<MenuNotAvailable>>))
         ELSE EmptyLoop(n, AddOneDay(current_date), days_added, md)
    ELSE md

_get_empty_menu_for_days(n, tdy) == EmptyLoop(n, tdy, 0, <<>>)

\* The cleaned name _group_items_by_day stores for a product name
CleanName(product_name) == RStripColon(Strip(product_name))

\* One iteration of the for loop of _group_items_by_day.  An item is
\* [day, product, name]: product is "null" (the key holds null, so
\* product.get raises), "noname" (no name) or "name".  daily is a function
\* from day numbers to sequences of names.
GroupStep(daily, item) ==
    IF item.day # 0 /\ item.product = "name" /\ item.name # <<>> /\ Strip(item.name) # <<>>
    THEN LET d1 == IF item.day \in DOMAIN daily THEN daily
                   ELSE daily @@ (item.day :> <<>>)
             cleaned_name == CleanName(item.name)
         IN  IF cleaned_name # <<>> /\ ~(\E i \in 1..Len(d1[item.day]) : d1[item.day][i] = cleaned_name)
             THEN [d1 EXCEPT ![item.day] = Append(@, cleaned_name)]
             ELSE d1
    ELSE daily

RECURSIVE GroupLoop(_, _, _)
GroupLoop(items, i, daily) ==
    IF i > Len(items) THEN [exc |-> FALSE, daily |-> daily]
    ELSE IF items[i].product = "null" THEN [exc |-> TRUE, daily |-> daily]
    ELSE GroupLoop(items, i + 1, GroupStep(daily, items[i]))

\* _group_items_by_day; exc: an exception left the function
_group_items_by_day(menu) ==
    IF menu.items_null THEN [exc |-> TRUE, daily |-> <<>>]
    ELSE GroupLoop(menu.items, 1, <<>>)

\* the value _convert_to_date_format stores for one school day
DayValue(daily_items, menu_month, menu_year, search_date) ==
    IF _is_date_in_menu_range(search_date, menu_month, menu_year)
    THEN IF search_date[3] \in DOMAIN daily_items
         THEN LET filtered_items == _filter_standard_items(daily_items[search_date[3]])
              IN  IF filtered_items # <<>> THEN filtered_items ELSE <<NoMenuAvailable>>
         ELSE <<NoMenuAvailable>>
    ELSE <<NoMenuAvailable>>

\* the while loop of _convert_to_date_format
RECURSIVE ConvertLoop(_, _, _, _, _, _, _)
ConvertLoop(daily_items, menu_month, menu_year, n, search_date, days_added, md) ==
    IF days_added < n
    THEN IF _is_school_day(search_date)
         THEN ConvertLoop(daily_items, menu_month, menu_year, n,
                          AddOneDay(search_date), days_added + 1,
                          DictSet(md, Strftime(search_date),
                                  DayValue(daily_items, menu_month, menu_year, search_date)))
         ELSE ConvertLoop(daily_items, menu_month, menu_year, n,
                          AddOneDay(search_date), days_added, md)
    ELSE md

_convert_to_date_format(daily_items, menu_month, menu_year, n, tdy) ==
    ConvertLoop(daily_items, menu_month, menu_year, n, tdy, 0, <<>>)

\* _extract_menu_dates: TRUE when month and year are both present (truthy)
_extract_menu_dates(menu) == menu.month # 0 /\ menu.year # 0

\* mutant: an exception while grouping keeps the items grouped so far
_parse_graphql_menu_data_partial(menu, n, tdy) ==
    IF ~_extract_menu_dates(menu) THEN _get_empty_menu_for_days(n, tdy)
    ELSE _convert_to_date_format(_group_items_by_day(menu).daily,
                                 menu.month, menu.year, n, tdy)

\* _parse_graphql_menu_data
_parse_graphql_menu_data(menu, n, tdy) ==
    IF ~_extract_menu_dates(menu) THEN _get_empty_menu_for_days(n, tdy)
    ELSE LET g == _group_items_by_day(menu)
         IN  IF g.exc THEN _get_empty_menu_for_days(n, tdy)
             ELSE _convert_to_date_format(g.daily, menu.month, menu.year, n, tdy)

\* What _fetch_menu_from_api returns for the response r of requests.post.
\* r.kind = "raise": requests.post raised (timeout, connection error);
\* r.json: "invalid" (response.json() raises), "list" (a JSON value that is
\* no object) or "dict"; r.data: "missing" (no "data" key), "null" ("data"
\* holds null), "nomenu" (no menu or a null menu) or "menu".
_fetch_menu_from_api(r, n, tdy) ==
    IF r.kind = "raise" THEN _get_empty_menu_for_days(n, tdy)
    ELSE IF r.status # 200 THEN _get_empty_menu_for_days(n, tdy)
    ELSE IF r.json # "dict" THEN _get_empty_menu_for_days(n, tdy)
    ELSE IF r.errors THEN _get_empty_menu_for_days(n, tdy)
    ELSE IF r.data # "menu" THEN _get_empty_menu_for_days(n, tdy)
    ELSE _parse_graphql_menu_data(r.menu, n, tdy)

(***************************************************************************)
(* Inputs of get_menu_for_days                                             *)
(***************************************************************************)
\* Longest items list of a payload
MaxItems == 2

\* Python's None as a menu id
NoneId == "<None>"

MenuIds == {NoneId, "", "68750f9b40a2c835145a7cc2"}

\* mutant: only None counts as no menu id
MenuIdGiven_notnone(id) == id # NoneId

\* truthiness of menu_id (line 77)
MenuIdGiven(id) == id # NoneId /\ id # ""

NumDaysInputs == (MIN_DAYS - 2)..(MAX_DAYS + 2)

\* Thursday 2024-12-26 .. Wednesday 2025-01-01: every weekday, and windows
\* that cross the end of the month and of the year; and a leap-day window.
Todays ==
    { <<2024,12,26>>, <<2024,12,27>>, <<2024,12,28>>, <<2024,12,29>>,
      <<2024,12,30>>, <<2024,12,31>>, <<2025,1,1>>, <<2024,2,28>> }

\* month/year pairs a menu states
MenuPeriods == { <<12,2024>>, <<1,2025>>, <<12,2025>> }

ProductNames ==
    { <<"P","i","z","z","a">>,
      <<"P","i","z","z","a",":">>,
      <<" ","T","a","c","o"," ">>,
      <<"G","a","r","d","e","n"," ","B","a","r",":">>,
      <<"S","o","y"," ","M","I","L","K">>,
      <<":">>,
      <<"P","i","z","z","a"," ",":">> }

\* day 31 carries every product name, day 2 one plain name
GoodItems ==
    [day : {31}, product : {"name"}, name : ProductNames]
    \cup { [day |-> 2, product |-> "name", name |-> <<"P","i","z","z","a">>] }

\* an item without a product name, and one whose product is null
OddItems == { [day |-> 31, product |-> "noname", name |-> <<>>],
              [day |-> 31, product |-> "null", name |-> <<>>] }

Items == GoodItems \cup OddItems

ItemSeqs == UNION { [1..k -> Items] : k \in 0..MaxItems }

Menus ==
    { [month |-> p[1], year |-> p[2], items_null |-> FALSE, items |-> s] :
        p \in MenuPeriods, s \in ItemSeqs }
    \cup
    \* month missing, year missing, items null
    { [month |-> 0, year |-> 2024, items_null |-> FALSE, items |-> <<>>],
      [month |-> 12, year |-> 0, items_null |-> FALSE, items |-> <<>>],
      [month |-> 12, year |-> 2024, items_null |-> TRUE, items |-> <<>>] }

NoMenu == [month |-> 0, year |-> 0, items_null |-> FALSE, items |-> <<>>]

NoResponse ==
    [kind |-> "none", status |-> 0, json |-> "invalid", errors |-> FALSE,
     data |-> "missing", menu |-> NoMenu]

\* responses that carry no menu
FailedResponses ==
    { [kind |-> "raise", status |-> 0, json |-> "invalid", errors |-> FALSE,
       data |-> "missing", menu |-> NoMenu] }
    \cup
    [kind : {"http"}, status : {500}, json : {"dict"}, errors : {FALSE},
     data : {"menu"}, menu : {[month |-> 12, year |-> 2024, items_null |-> FALSE, items |-> <<>>]}]
    \cup
    [kind : {"http"}, status : {200}, json : {"invalid", "list"}, errors : {FALSE},
     data : {"missing"}, menu : {NoMenu}]
    \cup
    [kind : {"http"}, status : {200}, json : {"dict"}, errors : {TRUE},
     data : {"menu"}, menu : {[month |-> 12, year |-> 2024, items_null |-> FALSE, items |-> <<>>]}]
    \cup
    [kind : {"http"}, status : {200}, json : {"dict"}, errors : {FALSE},
     data : {"missing", "null", "nomenu"}, menu : {NoMenu}]

MenuResponses ==
    [kind : {"http"}, status : {200}, json : {"dict"}, errors : {FALSE},
     data : {"menu"}, menu : Menus]

Responses == FailedResponses \cup MenuResponses

\* settings while no generate_image call of SchoolMenu is modelled
NoSettings == [numDays |-> [kind |-> "missing", int |-> 0, text |-> <<>>],
               menuId |-> [present |-> FALSE, text |-> <<>>]]

\* the variables of the other plugin while get_menu_for_days is modelled
NoConfig ==
    [resolution |-> <<0, 0>>, orientation |-> "horizontal", color |-> "color",
     gridSize |-> "4x4", showBorders |-> FALSE, tilesKind |-> "json", tiles |-> <<>>]

TileIdle ==
    tpc = "idle" /\ cfg = NoConfig /\ img = <<>> /\ idx = 0 /\ log = <<>>

NoGeom == [stage |-> "idle"]

(***************************************************************************)
(* get_menu_for_days as a state machine                                    *)
(***************************************************************************)
Init ==
    /\ pc = "call"
    /\ today \in Todays
    /\ num_days \in NumDaysInputs
    /\ menu_id \in MenuIds
    /\ response = NoResponse
    /\ requests = 0
    /\ menu_data = <<>>
    /\ settings = NoSettings
    /\ TileIdle
    /\ geom = NoGeom

\* lines 72-75: the day count is rejected
RaiseValueError ==
    /\ pc = "call"
    /\ ~_is_valid_day_count(num_days)
    /\ pc' = "raised"
    /\ UNCHANGED <<today, num_days, menu_id, response, requests, menu_data, settings, tileVars, geom>>

\* lines 79-80: no menu id, the empty menu is returned
ReturnEmptyMenu ==
    /\ pc = "call"
    /\ _is_valid_day_count(num_days)
    /\ ~MenuIdGiven(menu_id)
    /\ menu_data' = _get_empty_menu_for_days(num_days, today)
    /\ pc' = "done"
    /\ UNCHANGED <<today, num_days, menu_id, response, requests, settings, tileVars, geom>>

\* lines 77-78 and _fetch_menu_from_api: the request is issued and its
\* outcome handled
FetchMenuFromApi ==
    /\ pc = "call"
    /\ _is_valid_day_count(num_days)
    /\ MenuIdGiven(menu_id)
    /\ \E r \in Responses :
        /\ response' = r
        /\ requests' = requests + 1
        /\ menu_data' = _fetch_menu_from_api(r, num_days, today)
    /\ pc' = "done"
    /\ UNCHANGED <<today, num_days, menu_id, settings, tileVars, geom>>

Next == RaiseValueError \/ ReturnEmptyMenu \/ FetchMenuFromApi

Spec == Init /\ [][Next]_vars

(***************************************************************************)
(* SchoolMenu.generate_image: the settings are parsed, get_menu_for_days   *)
(* is called with the parsed values and the menu is rendered.              *)
(*                                                  Specification ImageSpec*)
(***************************************************************************)
\* the str made of a sequence of characters
RECURSIVE JoinChars(_)
JoinChars(chars) ==
    IF chars = <<>> THEN "" ELSE chars[1] \o JoinChars(Tail(chars))

\* the number a sequence of decimal digits denotes
RECURSIVE DecimalValue(_)
DecimalValue(ds) ==
    IF ds = <<>> THEN 0
    ELSE DecimalValue(SubSeq(ds, 1, Len(ds) - 1)) * 10 + DigitValue(ds[Len(ds)])

\* int(v) for an int or a str: surrounding whitespace and one sign are
\* accepted, anything but decimal digits raises ValueError
PyInt(v) ==
    IF v.kind = "int" THEN [raises |-> FALSE, value |-> v.int]
    ELSE LET t == Strip(v.text)
             signed == t # <<>> /\ t[1] \in {"-", "+"}
             ds == IF signed THEN Tail(t) ELSE t
             isNumber == ds # <<>> /\ \A i \in 1..Len(ds) : \E d \in 1..10 : Digits[d] = ds[i]
         IN  IF ~isNumber THEN [raises |-> TRUE, value |-> 0]
             ELSE [raises |-> FALSE,
                   value |-> IF signed /\ t[1] = "-" THEN 0 - DecimalValue(ds)
                             ELSE DecimalValue(ds)]

\* mutant: the parsed day count is passed on as it is
_parse_settings_noclamp(st) ==
    LET id == JoinChars(Strip(IF st.menuId.present THEN st.menuId.text ELSE <<>>))
        n == IF st.numDays.kind = "missing" THEN [raises |-> FALSE, value |-> 1]
             ELSE PyInt(st.numDays)
    IN  IF n.raises THEN [raises |-> TRUE, menu_id |-> id, num_days |-> 0]
        ELSE [raises |-> FALSE, menu_id |-> id, num_days |-> n.value]

\* _parse_settings: the entries of the returned dict that get_menu_for_days
\* is given; raises: int() did not accept the numDays setting
_parse_settings(st) ==
    LET id == JoinChars(Strip(IF st.menuId.present THEN st.menuId.text ELSE <<>>))
        n == IF st.numDays.kind = "missing" THEN [raises |-> FALSE, value |-> 1]
             ELSE PyInt(st.numDays)
    IN  IF n.raises THEN [raises |-> TRUE, menu_id |-> id, num_days |-> 0]
        ELSE [raises |-> FALSE, menu_id |-> id,
              num_days |-> IF ~_is_valid_day_count(n.value) THEN 1 ELSE n.value]

\* get_menu_for_days as one call: whether it raises ValueError, how many
\* requests it issues and the dict it returns, for the response r of
\* requests.post
get_menu_for_days(n, id, r, tdy) ==
    IF ~_is_valid_day_count(n)
    THEN [raises |-> TRUE, requests |-> 0, menu |-> <<>>]
    ELSE IF MenuIdGiven(id)
    THEN [raises |-> FALSE, requests |-> 1, menu |-> _fetch_menu_from_api(r, n, tdy)]
    ELSE [raises |-> FALSE, requests |-> 0, menu |-> _get_empty_menu_for_days(n, tdy)]

\* settings["numDays"]: absent, an int, or a str as a form delivers it
NumDaysSettings ==
    { [kind |-> "missing", int |-> 0, text |-> <<>>] }
    \cup { [kind |-> "int", int |-> v, text |-> <<>>] : v \in NumDaysInputs }
    \cup { [kind |-> "text", int |-> 0, text |-> t] :
             t \in { <<"3">>, <<"7">>, <<" ","2"," ">>, <<"-","1">>, <<"1","0">>,
                     <<"a","b","c">>, <<>> } }

\* settings["menuId"]: absent, blank, or an id with spaces around it
MenuIdSettings ==
    { [present |-> FALSE, text |-> <<>>],
      [present |-> TRUE, text |-> <<" "," ">>],
      [present |-> TRUE, text |-> <<" ","6","8","7","5"," ">>] }

SettingsInputs == [numDays : NumDaysSettings, menuId : MenuIdSettings]

\* the responses of requests.post with at most one item in the menu
ImageResponses == { r \in Responses : Len(r.menu.items) <= 1 }

ImageInit ==
    /\ pc = "generate_image"
    /\ today \in Todays
    /\ settings \in SettingsInputs
    /\ num_days = 0
    /\ menu_id = NoneId
    /\ response = NoResponse
    /\ requests = 0
    /\ menu_data = <<>>
    /\ TileIdle
    /\ geom = NoGeom

\* lines 301-335.  pc afterwards: "returned" (the image), or the
\* RuntimeError of lines 333-335 with the exception it wraps: the
\* ValueError of int() in _parse_settings, the ValueError of
\* get_menu_for_days, or the failure of render_image.
GenerateImage ==
    /\ pc = "generate_image"
    /\ \E r \in ImageResponses, rendered \in BOOLEAN :
        LET config == _parse_settings(settings)
            got == get_menu_for_days(config.num_days, config.menu_id, r, today)
        IN  IF config.raises
            THEN /\ pc' = "runtime_error(settings)"
                 /\ UNCHANGED <<num_days, menu_id, response, requests, menu_data>>
            ELSE /\ num_days' = config.num_days
                 /\ menu_id' = config.menu_id
                 /\ requests' = got.requests
                 /\ response' = IF got.requests = 1 THEN r ELSE NoResponse
                 /\ menu_data' = got.menu
                 /\ pc' = IF got.raises THEN "runtime_error(num_days)"
                          ELSE IF rendered THEN "returned"
                          ELSE "runtime_error(render)"
    /\ UNCHANGED <<today, settings, tileVars, geom>>

ImageNext == GenerateImage

ImageSpec == ImageInit /\ [][ImageNext]_vars

(***************************************************************************)
(* TilePlugin: grid arithmetic                                             *)
(***************************************************************************)
GridNames == {"2x2", "3x3", "4x4", "5x5", "6x6", "7x7", "8x8", "9x9", "10x10"}

GRID_SIZES ==
    [s \in GridNames |->
        CASE s = "2x2" -> <<2, 2>> [] s = "3x3" -> <<3, 3>> [] s = "4x4" -> <<4, 4>>
          [] s = "5x5" -> <<5, 5>> [] s = "6x6" -> <<6, 6>> [] s = "7x7" -> <<7, 7>>
          [] s = "8x8" -> <<8, 8>> [] s = "9x9" -> <<9, 9>> [] s = "10x10" -> <<10, 10>>]

\* GRID_SIZES.get(grid_size, (4, 4))
GridDims(grid_size) ==
    IF grid_size \in DOMAIN GRID_SIZES THEN GRID_SIZES[grid_size] ELSE <<4, 4>>

\* lines 109-113: width, height of the canvas
Dimensions(resolution, orientation) ==
    IF orientation = "vertical" THEN <<resolution[2], resolution[1]>> ELSE resolution

\* mutant: the cell size rounded up
CellSize_ceil(width, height, grid_cols, grid_rows) ==
    <<(width + grid_cols - 1) \div grid_cols, (height + grid_rows - 1) \div grid_rows>>

\* lines 129-130: <<tile_width, tile_height>>
CellSize(width, height, grid_cols, grid_rows) ==
    <<width \div grid_cols, height \div grid_rows>>

\* lines 201-204 (and 258-261): the pixel rectangle of a tile
TileRect(tile, tile_width, tile_height) ==
    [x |-> tile.x * tile_width, y |-> tile.y * tile_height,
     w |-> tile.width * tile_width, h |-> tile.height * tile_height]

(***************************************************************************)
(* TilePlugin: the canvas.  A pixel records what drew it last: src is      *)
(* "bg" (Image.new), "border" (_draw_grid_borders), "tile" (the pasted     *)
(* bitmap of tile k) or "err" (the error fill of tile k); ink is the tile  *)
(* whose error text lies over the pixel, 0 for none.                       *)
(***************************************************************************)
BgPixel == [src |-> "bg", k |-> 0, ink |-> 0]
BorderPixel == [src |-> "border", k |-> 0, ink |-> 0]
TilePixel(i) == [src |-> "tile", k |-> i, ink |-> 0]
ErrPixel(i) == [src |-> "err", k |-> i, ink |-> 0]

Pixels(width, height) == (0..(width - 1)) \X (0..(height - 1))

\* line 119: the mode of the canvas
CanvasMode(color) == IF color = "bw" THEN "1" ELSE "RGB"

\* Image.new(mode, (width, height), background)
NewImage(width, height) == [p \in Pixels(width, height) |-> BgPixel]

\* _draw_grid_borders: lines of width 1 from edge to edge, clipped to the canvas
_draw_grid_borders(im, width, height, grid_cols, grid_rows) ==
    LET tile_width == width \div grid_cols
        tile_height == height \div grid_rows
    IN  [p \in DOMAIN im |->
            IF \/ \E col \in 1..(grid_cols - 1) : p[1] = col * tile_width
               \/ \E row \in 1..(grid_rows - 1) : p[2] = row * tile_height
            THEN BorderPixel ELSE im[p]]

\* mutant: the bitmap is composited under what earlier tiles drew
Paste_keep(im, i, tile_x, tile_y, size) ==
    [p \in DOMAIN im |->
        IF /\ tile_x <= p[1] /\ p[1] < tile_x + size[1]
           /\ tile_y <= p[2] /\ p[2] < tile_y + size[2]
           /\ im[p].src \notin {"tile", "err"}
        THEN TilePixel(i) ELSE im[p]]

\* main_img.paste(plugin_img, (tile_x, tile_y)): the bitmap's size decides
\* the region, which is clipped to the canvas
Paste(im, i, tile_x, tile_y, size) ==
    [p \in DOMAIN im |->
        IF /\ tile_x <= p[1] /\ p[1] < tile_x + size[1]
           /\ tile_y <= p[2] /\ p[2] < tile_y + size[2]
        THEN TilePixel(i) ELSE im[p]]

\* draw.rectangle([x0, y0, x1, y1], fill=...): both corners are inside the
\* filled box
DrawRectangle(im, i, x0, y0, x1, y1) ==
    [p \in DOMAIN im |->
        IF x0 <= p[1] /\ p[1] <= x1 /\ y0 <= p[2] /\ p[2] <= y1
        THEN ErrPixel(i) ELSE im[p]]

\* draw.text((text_x, text_y), ...): the text box, clipped to the canvas
DrawText(im, i, text_x, text_y, text_w, text_h) ==
    [p \in DOMAIN im |->
        IF /\ text_x <= p[1] /\ p[1] < text_x + text_w
           /\ text_y <= p[2] /\ p[2] < text_y + text_h
        THEN [im[p] EXCEPT !.ink = i] ELSE im[p]]

\* lines 277-280: <<text_w, text_h>> of "Error: <plugin_id>" in the error font
ErrorTextSize == <<3, 1>>

\* _draw_error_tile for tile number i
_draw_error_tile(im, tile, i, tile_width, tile_height) ==
    LET r == TileRect(tile, tile_width, tile_height)
        filled == DrawRectangle(im, i, r.x, r.y, r.x + r.w, r.y + r.h)
        text_x == r.x + ((r.w - ErrorTextSize[1]) \div 2)
        text_y == r.y + ((r.h - ErrorTextSize[2]) \div 2)
    IN  DrawText(filled, i, text_x, text_y, ErrorTextSize[1], ErrorTextSize[2])

(***************************************************************************)
(* TilePlugin: the child plugins and _render_tile                          *)
(***************************************************************************)
\* The plugins a tile can name.  "schoolmenu" is SchoolMenu.generate_image
\* (it reverses the resolution on a vertical device and renders RGB at that
\* size); "mono" renders a mode "1" bitmap at the resolution it is given;
\* "gray" returns a 3x3 mode "L" bitmap whatever it is asked; "broken"
\* raises in generate_image; "missing" is not known to the registry.
PluginIds == {"schoolmenu", "mono", "gray", "broken", "missing"}

\* TileDeviceConfig: get_resolution is the tile's size, get_config is forwarded
_create_tile_device_config(original, tile_dimensions) ==
    [dimensions |-> tile_dimensions, orientation |-> original.orientation,
     color |-> original.color]

\* schoolmenu.py lines 313-315: the size SchoolMenu renders at
SchoolMenuDimensions(device_config) ==
    IF device_config.orientation = "vertical"
    THEN <<device_config.dimensions[2], device_config.dimensions[1]>>
    ELSE device_config.dimensions

\* plugin_instance.generate_image(tile.plugin_settings, tile_device_config)
ChildImage(plugin_id, device_config) ==
    CASE plugin_id = "schoolmenu" ->
            [raises |-> FALSE, size |-> SchoolMenuDimensions(device_config), mode |-> "RGB"]
      [] plugin_id = "mono" ->
            [raises |-> FALSE, size |-> device_config.dimensions, mode |-> "1"]
      [] plugin_id = "gray" ->
            [raises |-> FALSE, size |-> <<3, 3>>, mode |-> "L"]
      [] OTHER ->
            [raises |-> TRUE, size |-> <<0, 0>>, mode |-> "RGB"]

\* lines 232-237: the mode of the bitmap handed to paste
PasteMode(main_mode, plugin_mode) ==
    IF main_mode = "1" /\ plugin_mode # "1" THEN "1"
    ELSE IF main_mode = "RGB" /\ plugin_mode = "1" THEN "RGB"
    ELSE plugin_mode

\* what _render_tile records of a tile it could not render
ErrorEntry(why) ==
    [op |-> "error", why |-> why, x |-> 0, y |-> 0, size |-> <<0, 0>>,
     mode |-> "", child |-> <<0, 0>>]

\* _render_tile for tile number i.  lookup is what get_plugin_instance does
\* for a plugin the registry does not know: it returns None ("none") or
\* raises ("raises").  The result is the canvas and what was done.
_render_tile(im, tile, i, tile_width, tile_height, device_config, lookup) ==
    LET r == TileRect(tile, tile_width, tile_height)
        tile_device_config == _create_tile_device_config(device_config, <<r.w, r.h>>)
        failed(why) == [img |-> _draw_error_tile(im, tile, i, tile_width, tile_height),
                        entry |-> ErrorEntry(why)]
        plugin_img == ChildImage(tile.plugin_id, tile_device_config)
    IN  IF tile.plugin_id = "missing"
        THEN failed(IF lookup = "none" THEN "not found" ELSE "lookup raised")
        ELSE IF plugin_img.raises THEN failed("child raised")
        \* Image.resize raises for a target without area
        ELSE IF plugin_img.size # <<r.w, r.h>> /\ (r.w < 1 \/ r.h < 1)
        THEN failed("resize raised")
        ELSE [img |-> Paste(im, i, r.x, r.y, <<r.w, r.h>>),
              entry |-> [op |-> "paste", why |-> "", x |-> r.x, y |-> r.y,
                         size |-> <<r.w, r.h>>,
                         mode |-> PasteMode(CanvasMode(device_config.color), plugin_img.mode),
                         child |-> plugin_img.size]]

(***************************************************************************)
(* TilePlugin.generate_image as a state machine                            *)
(***************************************************************************)
\* Longest list of tiles in tilesConfig
MaxTiles == 2

\* device and settings: a 5x5 colour canvas with a 2x2 grid (cells 2x2, one
\* spare pixel each way), a vertical black-and-white 6x4 device (canvas 4x6,
\* cells 2x3), an unknown grid size (4x4 by default, cells 1x1) and a 3x3
\* grid on a 7x5 canvas (cells 2x1)
Devices ==
    { [resolution |-> <<5, 5>>, orientation |-> "horizontal", color |-> "color",
       gridSize |-> "2x2", showBorders |-> TRUE],
      [resolution |-> <<6, 4>>, orientation |-> "vertical", color |-> "bw",
       gridSize |-> "2x2", showBorders |-> TRUE],
      [resolution |-> <<5, 5>>, orientation |-> "horizontal", color |-> "color",
       gridSize |-> "12x12", showBorders |-> FALSE],
      [resolution |-> <<7, 5>>, orientation |-> "horizontal", color |-> "bw",
       gridSize |-> "3x3", showBorders |-> FALSE] }

\* <<x, y, width, height>>: two neighbours, a tile over both, an empty tile
TilePlacements == { <<0, 0, 1, 1>>, <<1, 0, 1, 1>>, <<0, 0, 2, 1>>, <<1, 1, 0, 1>> }

Tiles ==
    { [x |-> q[1], y |-> q[2], width |-> q[3], height |-> q[4], plugin_id |-> id] :
        q \in TilePlacements, id \in PluginIds }

TileSeqs == UNION { [1..k -> Tiles] : k \in 0..MaxTiles }

\* tilesKind: "json" (a list of objects), "badjson" (a string json.loads
\* rejects: the list is empty) or "notobjects" (entries that are no objects)
TileConfigs ==
    { [resolution |-> d.resolution, orientation |-> d.orientation, color |-> d.color,
       gridSize |-> d.gridSize, showBorders |-> d.showBorders,
       tilesKind |-> "json", tiles |-> ts] : d \in Devices, ts \in TileSeqs }
    \cup
    { [resolution |-> d.resolution, orientation |-> d.orientation, color |-> d.color,
       gridSize |-> d.gridSize, showBorders |-> d.showBorders,
       tilesKind |-> kd, tiles |-> <<>>] : d \in Devices, kd \in {"badjson", "notobjects"} }

MenuIdle ==
    /\ pc = "idle" /\ today = <<2024,12,26>> /\ num_days = 1 /\ menu_id = NoneId
    /\ response = NoResponse /\ requests = 0 /\ menu_data = <<>>
    /\ settings = NoSettings

CanvasSize == Dimensions(cfg.resolution, cfg.orientation)

Cell == CellSize(CanvasSize[1], CanvasSize[2],
                 GridDims(cfg.gridSize)[1], GridDims(cfg.gridSize)[2])

TileInit ==
    /\ tpc = "start"
    /\ cfg \in TileConfigs
    /\ img = <<>>
    /\ idx = 0
    /\ log = <<>>
    /\ MenuIdle
    /\ geom = NoGeom

\* lines 87-136: the settings are read, the canvas created, the borders drawn
GenerateImageSetup ==
    /\ tpc = "start"
    /\ cfg.tilesKind # "notobjects"
    /\ img' = IF cfg.showBorders
              THEN _draw_grid_borders(NewImage(CanvasSize[1], CanvasSize[2]),
                                      CanvasSize[1], CanvasSize[2],
                                      GridDims(cfg.gridSize)[1], GridDims(cfg.gridSize)[2])
              ELSE NewImage(CanvasSize[1], CanvasSize[2])
    /\ idx' = 1
    /\ tpc' = "tiles"
    /\ UNCHANGED <<cfg, log, menuVars, geom>>

\* lines 106 and 152-154: TileConfig.from_dict fails on an entry that is no
\* object, and generate_image raises RuntimeError
GenerateImageFails ==
    /\ tpc = "start"
    /\ cfg.tilesKind = "notobjects"
    /\ tpc' = "raised"
    /\ UNCHANGED <<cfg, img, idx, log, menuVars, geom>>

\* mutant: a tile that cannot be rendered ends generate_image with the
\* RuntimeError of lines 152-154
RenderTile_propagate ==
    /\ tpc = "tiles"
    /\ idx <= Len(cfg.tiles)
    /\ \E lookup \in {"none", "raises"} :
        LET done == _render_tile(img, cfg.tiles[idx], idx, Cell[1], Cell[2], cfg, lookup)
        IN  IF done.entry.op = "error"
            THEN tpc' = "raised" /\ UNCHANGED <<img, log, idx>>
            ELSE /\ img' = done.img
                 /\ log' = Append(log, done.entry)
                 /\ idx' = idx + 1
                 /\ tpc' = tpc
    /\ UNCHANGED <<cfg, menuVars, geom>>

\* lines 139-147: one iteration of the for loop.  _render_tile handles every
\* failure of the child itself, so the handler of lines 142-147 is not
\* entered for tiles with integer coordinates and non-negative extents.
RenderTile ==
    /\ tpc = "tiles"
    /\ idx <= Len(cfg.tiles)
    /\ \E lookup \in {"none", "raises"} :
        LET done == _render_tile(img, cfg.tiles[idx], idx, Cell[1], Cell[2], cfg, lookup)
        IN  /\ img' = done.img
            /\ log' = Append(log, done.entry)
    /\ idx' = idx + 1
    /\ UNCHANGED <<tpc, cfg, menuVars, geom>>

\* lines 149-150: the canvas is returned
ReturnImage ==
    /\ tpc = "tiles"
    /\ idx > Len(cfg.tiles)
    /\ tpc' = "done"
    /\ UNCHANGED <<cfg, img, idx, log, menuVars, geom>>

TileNext == GenerateImageSetup \/ GenerateImageFails \/ RenderTile \/ ReturnImage

TileSpec == TileInit /\ [][TileNext]_vars

(***************************************************************************)
(* The grid arithmetic of generate_image and _render_tile on canvases of   *)
(* real size: the cell size, then the rectangle of one placement inside    *)
(* the grid.                                                               *)
(***************************************************************************)
Resolutions == { <<100, 100>>, <<800, 480>>, <<5, 5>>, <<7, 3>>, <<250, 122>> }

GridSettings == GridNames \cup {"12x12"}

\* the placements that lie inside a grid of cols x rows cells
PlacementsIn(cols, rows) ==
    { [x |-> q[1], y |-> q[2], width |-> q[3], height |-> q[4], plugin_id |-> "mono"] :
        q \in { t \in (0..(cols - 1)) \X (0..(rows - 1)) \X (1..cols) \X (1..rows) :
                  t[1] + t[3] <= cols /\ t[2] + t[4] <= rows } }

GridInit ==
    /\ geom \in [stage : {"start"}, resolution : Resolutions,
                 orientation : {"horizontal", "vertical"}, gridSize : GridSettings]
    /\ MenuIdle
    /\ TileIdle

\* lines 109-116 and 129-130
ComputeCell ==
    /\ geom.stage = "start"
    /\ LET dims == Dimensions(geom.resolution, geom.orientation)
           grid == GridDims(geom.gridSize)
       IN  geom' = [stage |-> "cell", width |-> dims[1], height |-> dims[2],
                    cols |-> grid[1], rows |-> grid[2],
                    cell |-> CellSize(dims[1], dims[2], grid[1], grid[2])]
    /\ UNCHANGED <<menuVars, tileVars>>

\* lines 201-204
ComputeRect ==
    /\ geom.stage = "cell"
    /\ \E tile \in PlacementsIn(geom.cols, geom.rows) :
         geom' = [stage |-> "rect", width |-> geom.width, height |-> geom.height,
                  cols |-> geom.cols, rows |-> geom.rows, cell |-> geom.cell,
                  tile |-> tile,
                  rect |-> TileRect(tile, geom.cell[1], geom.cell[2])]
    /\ UNCHANGED <<menuVars, tileVars>>

GridNext == ComputeCell \/ ComputeRect

GridSpec == GridInit /\ [][GridNext]_vars

(***************************************************************************)
(* Claims about get_menu_for_days (specification Spec)                     *)
(***************************************************************************)
KeyDate(i) == FromIsoFormat(menu_data[i][1])

\* ordinals of Monday-Friday dates, by date.weekday()'s definition
SchoolOrdinal(o) == (o + 6) % 7 < 5

\* the first n Monday-Friday ordinals at or after ordinal o
FirstSchoolOrdinals(o, n) ==
    { q \in o..(o + 2 * n + 2) :
        /\ SchoolOrdinal(q)
        /\ Cardinality({ r \in o..q : SchoolOrdinal(r) }) <= n }

\* C1: a returned menu (with or without a menu id) has exactly num_days
\* keys; they are ISO dates, distinct, in chronological order, never a
\* Saturday or Sunday, and exactly the first num_days Monday-Friday dates
\* on or after today.
C1_WindowOfSchoolDays ==
    pc = "done" =>
        LET kd == [i \in 1..Len(menu_data) |-> KeyDate(i)]
            ko == [i \in 1..Len(menu_data) |-> ToOrdinal(kd[i])]
        IN  /\ num_days \in 1..5
            /\ Len(menu_data) = num_days
            /\ \A i \in 1..Len(menu_data) :
                /\ Len(menu_data[i][1]) = 10
                /\ Strftime(kd[i]) = menu_data[i][1]
                /\ kd[i][2] \in 1..12
                /\ kd[i][3] \in 1..DaysInMonth(kd[i][1], kd[i][2])
                /\ Weekday(kd[i]) \notin {5, 6}
            /\ \A i, j \in 1..Len(menu_data) : i < j => ko[i] < ko[j]
            /\ { ko[i] : i \in 1..Len(menu_data) }
                  = FirstSchoolOrdinals(ToOrdinal(today), num_days)

\* a successful parse that starts on a Saturday and crosses the year's end
C1_Witness ==
    /\ pc = "done"
    /\ response.data = "menu" /\ response.menu.month = 12 /\ response.menu.year = 2024
    /\ Len(response.menu.items) = 1 /\ response.menu.items[1].product = "name"
    /\ today = <<2024,12,28>>
    /\ num_days = 5
    /\ Len(menu_data) = 5
    /\ KeyDate(1) = <<2024,12,30>> /\ KeyDate(5) = <<2025,1,3>>

\* the failures the fetch can meet, read off the response
FetchFailed(r) ==
    \/ r.kind = "raise"
    \/ r.status # 200
    \/ r.json # "dict"
    \/ r.errors
    \/ r.data # "menu"
    \/ r.menu.month = 0 \/ r.menu.year = 0
    \/ r.menu.items_null
    \/ \E i \in 1..Len(r.menu.items) : r.menu.items[i].product = "null"

IsFallback(i) == menu_data[i][2] = <<MenuNotAvailable>>

C3_RaisesIffOutOfRange ==
    /\ pc = "raised" => (num_days \notin 1..5 /\ requests = 0 /\ menu_data = <<>>)
    /\ pc = "done" => (num_days \in 1..5 /\ Len(menu_data) = num_days)
    /\ pc = "call" =>
         /\ (ENABLED RaiseValueError) <=> (num_days \notin 1..5)
         /\ (ENABLED ReturnEmptyMenu) <=> (num_days \in 1..5 /\ menu_id \in {NoneId, ""})

C3_Witness ==
    pc = "raised" /\ num_days = 6 /\ MenuIdGiven(menu_id) /\ requests = 0

\* C4: a call with valid num_days issues exactly one request when a menu id
\* is given, whatever num_days is and whether or not the request succeeds,
\* and none when the menu id is empty or None.
C4_OneRequestPerCall ==
    /\ requests <= 1
    /\ pc = "done" =>
         requests = (IF menu_id \in {NoneId, ""} THEN 0 ELSE 1)
    /\ pc = "call" => requests = 0

\* a request that timed out, five days asked for
C4_Witness ==
    /\ pc = "done" /\ num_days = 5 /\ menu_id \notin {NoneId, ""}
    /\ response.kind = "raise" /\ requests = 1

\* a payload every part of which has the expected shape
WellFormed(r) ==
    /\ ~FetchFailed(r)
    /\ \A i \in 1..Len(r.menu.items) :
        r.menu.items[i].product = "name" /\ r.menu.items[i].day \in 1..31

NoDuplicates(s) == \A i, j \in 1..Len(s) : s[i] = s[j] => i = j

InSeq(x, s) == \E i \in 1..Len(s) : s[i] = x

\* a name that has a STANDARD_ITEMS entry as a case-insensitive substring
OnDenyList(nm) ==
    LET low == Lower(nm)
    IN  \E k \in 1..Len(STANDARD_ITEMS) : Contains(low, StandardItemsLower[k])

\* C5: for a well-formed payload, the list of a requested date in the
\* menu's month and year has no duplicate and holds no product whose
\* delivered name, or whose cleaned name, is on the deny list.
C5_DenyListAndNoDuplicates ==
    (pc = "done" /\ MenuIdGiven(menu_id) /\ WellFormed(response)) =>
        \A i \in 1..Len(menu_data) :
            (KeyDate(i)[2] = response.menu.month /\ KeyDate(i)[1] = response.menu.year) =>
                /\ NoDuplicates(menu_data[i][2])
                /\ \A k \in 1..Len(response.menu.items) :
                    LET it == response.menu.items[k]
                    IN  (it.day = KeyDate(i)[3]
                         /\ (OnDenyList(it.name) \/ OnDenyList(CleanName(it.name))))
                        => ~InSeq(CleanName(it.name), menu_data[i][2])

\* a fetch that met none of the failures
Successful(r) == ~FetchFailed(r)

ItemsOfDay(r, d) == { k \in 1..Len(r.menu.items) : r.menu.items[k].day = d }

\* C6: after a successful fetch a requested date gets exactly
\* ["No menu available"] whenever its month or year is not the menu's, or
\* the payload has no item for its day of month, or the deny list removes
\* every item of that day.
C6_PlaceholderForUncoveredDays ==
    (pc = "done" /\ MenuIdGiven(menu_id) /\ Successful(response)) =>
        \A i \in 1..Len(menu_data) :
            LET d == KeyDate(i)
                its == ItemsOfDay(response, d[3])
            IN  ( \/ d[2] # response.menu.month
                  \/ d[1] # response.menu.year
                  \/ its = {}
                  \/ \A k \in its :
                        /\ response.menu.items[k].product = "name"
                        /\ OnDenyList(CleanName(response.menu.items[k].name)) )
                => menu_data[i][2] = <<NoMenuAvailable>>

\* the window crosses the end of December, the December menu holds an item
\* for day 2, and January 2 still gets the placeholder
C6_Witness ==
    /\ pc = "done" /\ MenuIdGiven(menu_id) /\ Successful(response)
    /\ response.menu.month = 12 /\ response.menu.year = 2024
    /\ today = <<2024,12,31>> /\ num_days = 3
    /\ \E k \in 1..Len(response.menu.items) :
          response.menu.items[k] = [day |-> 2, product |-> "name", name |-> <<"P","i","z","z","a">>]
    /\ \E k \in 1..Len(response.menu.items) :
          response.menu.items[k] = [day |-> 31, product |-> "name", name |-> <<"P","i","z","z","a">>]
    /\ menu_data[1][2] = << <<"P","i","z","z","a">> >>
    /\ KeyDate(3) = <<2025,1,2>>
    /\ menu_data[3][2] = <<NoMenuAvailable>>

(***************************************************************************)
(* Claims about the grid arithmetic (specification GridSpec)               *)
(***************************************************************************)
\* q is the floor of a / b, said without division
IsFloorDiv(q, a, b) == q * b <= a /\ a < (q + 1) * b

\* C7: the cell size is (W div cols, H div rows) by floor division, the
\* rectangle of a placement (x, y, w, h) has top-left (x*cellW, y*cellH) and
\* size (w*cellW, h*cellH), the W mod cols rightmost columns and the
\* H mod rows lowest rows lie in no cell, and a 2x2 grid on a 100x100 canvas
\* gives the cells (0,0)-(50,50), (50,0)-(100,50), (0,50)-(50,100),
\* (50,50)-(100,100).
C7_FloorDivisionCells ==
    /\ geom.stage \in {"cell", "rect"} =>
         /\ IsFloorDiv(geom.cell[1], geom.width, geom.cols)
         /\ IsFloorDiv(geom.cell[2], geom.height, geom.rows)
    /\ geom.stage = "rect" =>
         /\ geom.rect.x = geom.tile.x * geom.cell[1]
         /\ geom.rect.y = geom.tile.y * geom.cell[2]
         /\ geom.rect.w = geom.tile.width * geom.cell[1]
         /\ geom.rect.h = geom.tile.height * geom.cell[2]
         /\ geom.rect.x + geom.rect.w <= geom.width - (geom.width % geom.cols)
         /\ geom.rect.y + geom.rect.h <= geom.height - (geom.height % geom.rows)
         /\ (geom.width = 100 /\ geom.height = 100 /\ geom.cols = 2 /\ geom.rows = 2
             /\ geom.tile.width = 1 /\ geom.tile.height = 1) =>
               <<geom.rect.x, geom.rect.y,
                 geom.rect.x + geom.rect.w, geom.rect.y + geom.rect.h>> =
                   CASE geom.tile.x = 0 /\ geom.tile.y = 0 -> <<0, 0, 50, 50>>
                     [] geom.tile.x = 1 /\ geom.tile.y = 0 -> <<50, 0, 100, 50>>
                     [] geom.tile.x = 0 /\ geom.tile.y = 1 -> <<0, 50, 50, 100>>
                     [] geom.tile.x = 1 /\ geom.tile.y = 1 -> <<50, 50, 100, 100>>

\* the last cell of a 3x3 grid on a 250x122 canvas: 83x40 cells, one column
\* and two rows of the canvas in no cell
C7_Witness ==
    /\ geom.stage = "rect"
    /\ geom.width = 250 /\ geom.height = 122 /\ geom.cols = 3 /\ geom.rows = 3
    /\ geom.tile.x = 2 /\ geom.tile.y = 2 /\ geom.tile.width = 1 /\ geom.tile.height = 1
    /\ geom.rect = [x |-> 166, y |-> 80, w |-> 83, h |-> 40]

(***************************************************************************)
(* Claims about TilePlugin.generate_image (specification TileSpec)         *)
(***************************************************************************)
InRect(p, r) ==
    /\ r.x <= p[1] /\ p[1] <= r.x + r.w - 1
    /\ r.y <= p[2] /\ p[2] <= r.y + r.h - 1

\* C8: when a tile fails, the error fill covers exactly the tile's
\* rectangle, columns x*cellW .. (x+w)*cellW - 1 and rows y*cellH ..
\* (y+h)*cellH - 1: every pixel inside is filled, no pixel outside is
\* changed by the fill.
C8_ErrorFillExactlyTheTile ==
    [][ (tpc = "tiles" /\ idx' = idx + 1 /\ log'[idx].op = "error") =>
          LET r == TileRect(cfg.tiles[idx], Cell[1], Cell[2])
          IN  \A p \in DOMAIN img :
                IF InRect(p, r)
                THEN img'[p].src = "err" /\ img'[p].k = idx
                ELSE img'[p].src = img[p].src /\ img'[p].k = img[p].k ]_vars

PluginFails(plugin_id) == plugin_id \in {"missing", "broken"}

\* C9: with well-formed placements generate_image does not raise, whichever
\* children fail; each failing tile gets the error placeholder, and each
\* other tile, also after a failing one, is pasted at its own rectangle,
\* which then shows that tile's bitmap.
C9_FailingTilesStayLocal ==
    /\ tpc = "raised" => cfg.tilesKind = "notobjects"
    /\ tpc = "done" => Len(log) = Len(cfg.tiles)
    /\ tpc \in {"tiles", "done"} =>
         /\ Len(log) = idx - 1
         /\ \A i \in 1..Len(log) :
              LET t == cfg.tiles[i]
              IN  /\ PluginFails(t.plugin_id) => log[i].op = "error"
                  /\ (~PluginFails(t.plugin_id) /\ t.width > 0 /\ t.height > 0) =>
                        /\ log[i].op = "paste"
                        /\ log[i].x = t.x * Cell[1] /\ log[i].y = t.y * Cell[2]
                        /\ log[i].size = <<t.width * Cell[1], t.height * Cell[2]>>
         /\ (tpc = "tiles" /\ idx > 1 /\ log[idx - 1].op = "paste") =>
              \A p \in DOMAIN img :
                 InRect(p, TileRect(cfg.tiles[idx - 1], Cell[1], Cell[2]))
                    => img[p] = TilePixel(idx - 1)

\* a tile over the two upper cells fails to load, then the upper right cell
\* is rendered over the placeholder
C9_Witness ==
    /\ tpc = "done" /\ cfg.tilesKind = "json" /\ cfg.gridSize = "2x2" /\ cfg.color = "color"
    /\ Len(cfg.tiles) = 2
    /\ cfg.tiles[1] = [x |-> 0, y |-> 0, width |-> 2, height |-> 1, plugin_id |-> "broken"]
    /\ cfg.tiles[2] = [x |-> 1, y |-> 0, width |-> 1, height |-> 1, plugin_id |-> "schoolmenu"]
    /\ log[1].op = "error" /\ log[2].op = "paste"
    /\ img[<<0, 0>>].src = "err" /\ img[<<2, 0>>] = TilePixel(2) /\ img[<<3, 1>>] = TilePixel(2)

\* C10: whatever size and mode the child returns, the bitmap _render_tile
\* pastes has the size (w*cellW, h*cellH) of the tile's rectangle and the
\* mode of the canvas ("1" on a bw device, "RGB" otherwise).
C10_PastedBitmapFitsCanvas ==
    \A i \in 1..Len(log) :
        log[i].op = "paste" =>
            /\ log[i].size = <<cfg.tiles[i].width * Cell[1], cfg.tiles[i].height * Cell[2]>>
            /\ log[i].mode = (IF cfg.color = "bw" THEN "1" ELSE "RGB")

\* a pixel of an internal column or row boundary of the grid
OnBoundary(p) ==
    \/ \E c \in 1..(GridDims(cfg.gridSize)[1] - 1) : p[1] = c * Cell[1]
    \/ \E r \in 1..(GridDims(cfg.gridSize)[2] - 1) : p[2] = r * Cell[2]

\* C11: with borders enabled, every pixel of every internal column boundary
\* x = c*cellW and row boundary y = r*cellH of the returned bitmap has the
\* border colour, whatever tiles were placed.
C11_BordersShowInResult ==
    (tpc = "done" /\ cfg.showBorders) =>
        \A p \in DOMAIN img : OnBoundary(p) => img[p].src = "border"

\* C12: tiles are handled one at a time in list order (when tile idx is
\* next, exactly the tiles before it have been handled and nothing on the
\* canvas comes from a later one), overlap never makes generate_image raise,
\* and a pixel in the rectangles of two placements comes from the later of
\* the two (from its bitmap or its placeholder), or from a placement later
\* still.
C12_LaterPlacementWins ==
    /\ tpc = "raised" => cfg.tilesKind = "notobjects"
    /\ tpc \in {"tiles", "done"} =>
         /\ Len(log) = idx - 1
         /\ \A p \in DOMAIN img : img[p].k < idx /\ img[p].ink < idx
         /\ LET rect == [i \in 1..Len(log) |-> TileRect(cfg.tiles[i], Cell[1], Cell[2])]
            IN  \A j \in 2..Len(log) :
                  \A p \in DOMAIN img :
                     (InRect(p, rect[j]) /\ \E i \in 1..(j - 1) : InRect(p, rect[i])) =>
                         /\ img[p].src \in {"tile", "err"}
                         /\ img[p].k >= j
                         /\ j = Len(log) => img[p].k = j
                         /\ img[p].k = j =>
                              img[p].src = (IF log[j].op = "paste" THEN "tile" ELSE "err")

\* the upper right cell is rendered, then a tile over both upper cells is
\* rendered over it
C12_Witness ==
    /\ tpc = "done" /\ cfg.gridSize = "2x2" /\ cfg.color = "color"
    /\ Len(cfg.tiles) = 2
    /\ cfg.tiles[1] = [x |-> 1, y |-> 0, width |-> 1, height |-> 1, plugin_id |-> "schoolmenu"]
    /\ cfg.tiles[2] = [x |-> 0, y |-> 0, width |-> 2, height |-> 1, plugin_id |-> "mono"]
    /\ log[1].op = "paste" /\ log[2].op = "paste"
    /\ img[<<2, 0>>] = TilePixel(2) /\ img[<<3, 1>>] = TilePixel(2)

(***************************************************************************)
(* Claims about the names _group_items_by_day stores (specification Spec)  *)
(***************************************************************************)
\* no trailing colon, no whitespace at either end, not empty
IsCleanName(nm) ==
    /\ nm # <<>>
    /\ nm[Len(nm)] # ":"
    /\ nm[1] \notin Whitespace
    /\ nm[Len(nm)] \notin Whitespace

\* a name without its leading whitespace and without its trailing colons
\* and whitespace, in whatever order they come
Core(nm) ==
    LET front == {i \in 1..Len(nm) : nm[i] \notin Whitespace}
        back == {i \in 1..Len(nm) : nm[i] \notin (Whitespace \cup {":"})}
    IN  IF back = {} THEN <<>>
        ELSE SubSeq(nm, CHOOSE i \in front : \A j \in front : i <= j,
                        CHOOSE i \in back : \A j \in back : j <= i)

\* C13: for a well-formed payload every name _group_items_by_day stores is
\* clean (no trailing colon, no leading or trailing whitespace, not empty),
\* and names of one day that differ only by trailing colons and whitespace
\* are stored once.
C13_StoredNamesAreClean ==
    (pc = "done" /\ MenuIdGiven(menu_id) /\ WellFormed(response)) =>
        LET daily_items == _group_items_by_day(response.menu).daily
        IN  \A day \in DOMAIN daily_items :
              /\ \A k \in 1..Len(daily_items[day]) : IsCleanName(daily_items[day][k])
              /\ \A a, b \in 1..Len(daily_items[day]) :
                    Core(daily_items[day][a]) = Core(daily_items[day][b]) => a = b

(***************************************************************************)
(* Claims about SchoolMenu.generate_image (specification ImageSpec)        *)
(***************************************************************************)
\* C14: generate_image never fails with the ValueError of get_menu_for_days;
\* an int numDays setting outside 1..5 is not rejected but replaced by 1
\* before get_menu_for_days is called, and the menu handed to the renderer
\* then has exactly one day; a setting in 1..5 is passed on as it is.
C14_OutOfRangeClampedToOne ==
    /\ pc # "runtime_error(num_days)"
    /\ (pc # "generate_image" /\ settings.numDays.kind = "int") =>
         /\ pc \in {"returned", "runtime_error(render)"}
         /\ settings.numDays.int \notin 1..5 => (num_days = 1 /\ Len(menu_data) = 1)
         /\ settings.numDays.int \in 1..5 =>
              (num_days = settings.numDays.int /\ Len(menu_data) = num_days)

\* numDays = 7 with a menu id: one request, one day rendered
C14_Witness ==
    /\ pc = "returned"
    /\ settings.numDays.kind = "int" /\ settings.numDays.int = 7
    /\ menu_id = "6875" /\ requests = 1 /\ response.data = "menu"
    /\ num_days = 1 /\ Len(menu_data) = 1

(***************************************************************************)
(* Claims about the device configuration a tile's child is given           *)
(* (specification TileSpec)                                                *)
(***************************************************************************)
\* C15: the configuration a child is given reports the tile's rectangle
\* size (w*cellW, h*cellH) as its resolution and the device's orientation
\* unchanged, and a child that reverses the resolution on a vertical device,
\* as SchoolMenu.generate_image does, renders at exactly (w*cellW, h*cellH)
\* on a horizontal and on a vertical device, never at (h*cellH, w*cellW).
C15_ChildRendersAtTileSize ==
    \A i \in 1..Len(log) :
        LET r == TileRect(cfg.tiles[i], Cell[1], Cell[2])
            narrowed == _create_tile_device_config(cfg, <<r.w, r.h>>)
        IN  /\ narrowed.dimensions = <<cfg.tiles[i].width * Cell[1], cfg.tiles[i].height * Cell[2]>>
            /\ narrowed.orientation = cfg.orientation
            /\ (log[i].op = "paste" /\ cfg.tiles[i].plugin_id = "schoolmenu") =>
                  log[i].child = <<cfg.tiles[i].width * Cell[1], cfg.tiles[i].height * Cell[2]>>

====
